---- MODULE Spec2Model ----
(***************************************************************************)
(* frameforge::AudioCapture (tools/frameforge/frameforge-audio.{h,cpp}):   *)
(* the capture session, its shared audio buffer, its voice activity        *)
(* detection (VAD) state and the PortAudio stream it drives.               *)
(*                                                                         *)
(* Two threads act on one session: the device layer's real-time thread     *)
(* (pa_callback -> handle_audio_data, the producer) and the application    *)
(* thread (every public method, the consumer).  Each critical section of   *)
(* the code is two steps here: taking the mutex, then the body together    *)
(* with the release at the end of the lock_guard's scope.                  *)
(***************************************************************************)
EXTENDS Integers, Sequences, FiniteSets

(***************************************************************************)
(* Configuration (AudioConfig) and the inputs the model enumerates.        *)
(* Samples are amplitudes in units of the VAD threshold's 0.01.  The       *)
(* session is configured with a sample rate of 8 Hz and durations of       *)
(* 250 ms, which makes both sample thresholds 2, so that batches of one    *)
(* and two samples fall short of, meet and pass them.                      *)
(***************************************************************************)
SampleRate == 8
Channels == 1
VadThreshold == 1
MinSpeechDurationMs == 250
SilenceDurationMs == 250

MaxBatches == 3
MaxInits == 2

\* The batches delivered where the producer and the consumer contend for the
\* locks under fair scheduling.
MaxFairBatches == 2
FairBatches == {<<2>>}

\* Frame counts the device layer passes to pa_callback.
FrameCounts == {0, 1, 2}

\* The batches the device layer delivers: one or two frames; a batch whose
\* RMS equals the threshold (silence) and one above it (speech) of each
\* length, the longer speech batch with unequal samples.
Batches == {<<1>>, <<2>>, <<1, 1>>, <<2, 1>>}

VARIABLES
    \* the session's fields
    callback_, capturing_, stream_, audio_buffer_,
    ready_to_process_, has_speech_, speech_sample_count_, silence_sample_count_,
    buffer_mutex_, vad_mutex_,
    \* the file's globals
    g_portaudio_initialized, g_portaudio_ref_count,
    \* the session object's lifetime
    alive,
    \* the device layer: the streams it holds open and those it is running
    opened, started,
    \* the producer thread: its position in handle_audio_data and its batch
    ppc, data,
    \* the application thread: its position, and its last completed call
    cpc, call,
    \* history: batches handed to handle_audio_data, samples returned by
    \* get_audio_buffer, whether clear_buffer ran, the batches the VAD has
    \* accounted since the last reset_vad_state, whether the buffer was taken
    \* or cleared since the last reset_vad_state, whether a batch was
    \* appended since the last take or clear
    arrived, taken, cleared, vadSeen, drained, appendedSince,
    \* trace of the producer: the batches handed to the user callback, the
    \* number of samples it has put into the buffer, the number of batches it
    \* has accounted in the VAD, whether the device layer's last delivery was
    \* a null or zero-length batch
    cbLog, inserted, accounted, lastIgnored

vars == <<callback_, capturing_, stream_, audio_buffer_,
          ready_to_process_, has_speech_, speech_sample_count_, silence_sample_count_,
          buffer_mutex_, vad_mutex_,
          g_portaudio_initialized, g_portaudio_ref_count, alive,
          opened, started, ppc, data, cpc, call,
          arrived, taken, cleared, vadSeen, drained, appendedSince,
          cbLog, inserted, accounted, lastIgnored>>

sessionVars == <<callback_, capturing_, stream_>>
bufferVars == <<audio_buffer_, buffer_mutex_>>
vadVars == <<ready_to_process_, has_speech_, speech_sample_count_,
             silence_sample_count_, vad_mutex_>>
VadFields == <<ready_to_process_, has_speech_, speech_sample_count_,
               silence_sample_count_>>
globalVars == <<g_portaudio_initialized, g_portaudio_ref_count>>
deviceVars == <<opened, started>>
producerVars == <<ppc, data>>
historyVars == <<arrived, taken, cleared, vadSeen, drained, appendedSince>>
traceVars == <<cbLog, inserted, accounted, lastIgnored>>

(***************************************************************************)
(* Pure parts of the code.                                                 *)
(***************************************************************************)

\* AudioCapture::AudioCapture: static_cast<size_t>((ms / 1000.0f) * sample_rate)
min_speech_samples_ == (MinSpeechDurationMs * SampleRate) \div 1000

silence_samples_threshold_ == (SilenceDurationMs * SampleRate) \div 1000

\* handle_audio_data: size_t total_samples = frame_count * config_.channels
total_samples(frame_count) == frame_count * Channels

\* calculate_rms's loop: sum_squares += data[i] * data[i]
RECURSIVE sum_squares(_)
sum_squares(d) ==
    IF d = <<>> THEN 0 ELSE Head(d) * Head(d) + sum_squares(Tail(d))

\* is_speech: calculate_rms(data, n) > config_.vad_threshold, where
\* calculate_rms is 0 for n = 0 and sqrt(sum_squares / n) otherwise; for a
\* non-negative threshold sqrt(s / n) > t is s > t * t * n.
is_speech(d) ==
    IF Len(d) = 0
    THEN 0 > VadThreshold
    ELSE sum_squares(d) > VadThreshold * VadThreshold * Len(d)

\* Mutant of buffer_insert: the batch inserted at the buffer's begin().
buffer_insert_at_begin(buf, d) == d \o buf

\* handle_audio_data: audio_buffer_.insert(audio_buffer_.end(), data, data + n)
buffer_insert(buf, d) == buf \o d

\* Mutant of buffer_swap: the buffer copied out and not emptied.
buffer_swap_copies(buf) == [ret |-> buf, buf |-> buf]

\* get_audio_buffer: buffer_copy.swap(audio_buffer_); return buffer_copy
buffer_swap(buf) == [ret |-> buf, buf |-> <<>>]

\* clear_buffer: audio_buffer_.clear()
buffer_clear(buf) == <<>>

\* Mutant of vad_update: silence before confirmed speech leaves the
\* counters as they are.
vad_update_keeps_progress(v, speech, n) ==
    IF speech
    THEN LET c == v.speech + n
         IN [v EXCEPT !.speech = c,
                      !.silence = 0,
                      !.has = IF c >= min_speech_samples_ THEN TRUE ELSE v.has]
    ELSE IF v.has
         THEN LET s == v.silence + n
              IN [v EXCEPT !.silence = s,
                           !.ready = IF s >= silence_samples_threshold_
                                     THEN TRUE ELSE v.ready]
         ELSE v

\* Mutant of vad_update: the silence run must exceed the threshold.
vad_update_strict_threshold(v, speech, n) ==
    IF speech
    THEN LET c == v.speech + n
         IN [v EXCEPT !.speech = c,
                      !.silence = 0,
                      !.has = IF c >= min_speech_samples_ THEN TRUE ELSE v.has]
    ELSE IF v.has
         THEN LET s == v.silence + n
              IN [v EXCEPT !.silence = s,
                           !.ready = IF s > silence_samples_threshold_
                                     THEN TRUE ELSE v.ready]
         ELSE [v EXCEPT !.speech = 0, !.silence = 0]

\* Mutant of vad_update: a speech batch withdraws ready_to_process.
vad_update_speech_unlatches(v, speech, n) ==
    IF speech
    THEN LET c == v.speech + n
         IN [v EXCEPT !.speech = c,
                      !.silence = 0,
                      !.ready = FALSE,
                      !.has = IF c >= min_speech_samples_ THEN TRUE ELSE v.has]
    ELSE IF v.has
         THEN LET s == v.silence + n
              IN [v EXCEPT !.silence = s,
                           !.ready = IF s >= silence_samples_threshold_
                                     THEN TRUE ELSE v.ready]
         ELSE [v EXCEPT !.speech = 0, !.silence = 0]

\* handle_audio_data's VAD block, on the four VAD fields
\* Mutant of vad_update: once ready_to_process_ is set nothing is counted.
vad_update_frozen_when_ready(v, speech, n) ==
    IF v.ready
    THEN v
    ELSE IF speech
    THEN LET c == v.speech + n
         IN [v EXCEPT !.speech = c,
                      !.silence = 0,
                      !.has = IF c >= min_speech_samples_ THEN TRUE ELSE v.has]
    ELSE IF v.has
         THEN LET s == v.silence + n
              IN [v EXCEPT !.silence = s,
                           !.ready = IF s >= silence_samples_threshold_
                                     THEN TRUE ELSE v.ready]
         ELSE [v EXCEPT !.speech = 0, !.silence = 0]

\* Mutant of vad_update: silence is counted before speech is confirmed.
vad_update_counts_silence_early(v, speech, n) ==
    IF speech
    THEN LET c == v.speech + n
         IN [v EXCEPT !.speech = c,
                      !.silence = 0,
                      !.has = IF c >= min_speech_samples_ THEN TRUE ELSE v.has]
    ELSE LET s == v.silence + n
         IN [v EXCEPT !.silence = s,
                      !.ready = IF s >= silence_samples_threshold_
                                THEN TRUE ELSE v.ready]

vad_update(v, speech, n) ==
    IF speech
    THEN LET c == v.speech + n
         IN [v EXCEPT !.speech = c,
                      !.silence = 0,
                      !.has = IF c >= min_speech_samples_ THEN TRUE ELSE v.has]
    ELSE IF v.has
         THEN LET s == v.silence + n
              IN [v EXCEPT !.silence = s,
                           !.ready = IF s >= silence_samples_threshold_
                                     THEN TRUE ELSE v.ready]
         ELSE [v EXCEPT !.speech = 0, !.silence = 0]

\* reset_vad_state's body
\* Mutant of vad_reset: the flags are cleared, the counters are kept.
vad_reset_keeps_counts(v) == [v EXCEPT !.ready = FALSE, !.has = FALSE]

vad_reset(v) == [ready |-> FALSE, has |-> FALSE, speech |-> 0, silence |-> 0]

vad == [ready |-> ready_to_process_, has |-> has_speech_,
        speech |-> speech_sample_count_, silence |-> silence_sample_count_]

SetVad(v) ==
    /\ ready_to_process_' = v.ready
    /\ has_speech_' = v.has
    /\ speech_sample_count_' = v.speech
    /\ silence_sample_count_' = v.silence

\* A completed call of the application thread: the method, its boolean result
\* (TRUE for a void method), the samples it returned, the requests it made to
\* the device layer, and for get_audio_buffer whether the call completed
\* before it was clear_buffer and whether a batch had been appended since the
\* previous take or clear.
Done(op, ok, out, reqs) ==
    [op |-> op, ok |-> ok, out |-> out, reqs |-> reqs,
     afterClear |-> FALSE, fresh |-> FALSE]

(***************************************************************************)
(* Construction.                                                           *)
(***************************************************************************)
Init ==
    /\ callback_ = FALSE
    /\ capturing_ = FALSE
    /\ stream_ = 0
    /\ audio_buffer_ = <<>>
    /\ ready_to_process_ = FALSE
    /\ has_speech_ = FALSE
    /\ speech_sample_count_ = 0
    /\ silence_sample_count_ = 0
    /\ buffer_mutex_ = "free"
    /\ vad_mutex_ = "free"
    /\ g_portaudio_initialized = FALSE
    /\ g_portaudio_ref_count = 0
    /\ alive = TRUE
    /\ opened = {}
    /\ started = {}
    /\ ppc = "idle"
    /\ data = <<>>
    /\ cpc = "idle"
    /\ call = Done("AudioCapture", TRUE, <<>>, <<>>)
    /\ arrived = <<>>
    /\ taken = <<>>
    /\ cleared = FALSE
    /\ vadSeen = <<>>
    /\ drained = FALSE
    /\ appendedSince = FALSE
    /\ cbLog = <<>>
    /\ inserted = 0
    /\ accounted = 0
    /\ lastIgnored = FALSE

(***************************************************************************)
(* The producer: pa_callback and handle_audio_data.                        *)
(***************************************************************************)

\* Mutant of batch_ignored: only a null input is turned away.
batch_ignored_null_only(in, fc) == ~in

\* The tests of pa_callback (in && capture) and of handle_audio_data
\* (!data || frame_count == 0): the batch is dropped before any work.
batch_ignored(in, fc) == ~in \/ fc = 0

\* The samples a delivery of fc frames can carry: none behind a null input.
delivered(in, fc) ==
    IF in
    THEN {d \in Batches \cup {<<>>} : Len(d) = total_samples(fc)}
    ELSE {<<>>}

\* The device layer calls pa_callback on a running stream with a batch that
\* passes both tests, its samples from batches.
pa_callback_of(batches) ==
    /\ alive
    /\ started # {}
    /\ ppc = "idle"
    /\ \E in \in BOOLEAN, fc \in FrameCounts :
         \E d \in delivered(in, fc) \cap (batches \cup {<<>>}) :
            /\ ~batch_ignored(in, fc)
            /\ data' = d
            /\ arrived' = Append(arrived, d)
    /\ ppc' = "lock_buffer"
    /\ lastIgnored' = FALSE
    /\ UNCHANGED <<sessionVars, bufferVars, vadVars, globalVars, alive,
                   deviceVars, cpc, call, taken, cleared, vadSeen, drained,
                   appendedSince, cbLog, inserted, accounted>>

pa_callback ==
    /\ Len(arrived) < MaxBatches
    /\ pa_callback_of(Batches)

\* A null input or a zero frame count: pa_callback or handle_audio_data
\* returns at once.
pa_callback_empty ==
    /\ alive
    /\ started # {}
    /\ ppc = "idle"
    /\ \E in \in BOOLEAN, fc \in FrameCounts : batch_ignored(in, fc)
    /\ lastIgnored' = TRUE
    /\ UNCHANGED <<sessionVars, bufferVars, vadVars, globalVars, alive,
                   deviceVars, producerVars, cpc, call, historyVars, cbLog,
                   inserted, accounted>>

handle_lock_buffer ==
    /\ alive
    /\ ppc = "lock_buffer"
    /\ buffer_mutex_ = "free"
    /\ buffer_mutex_' = "producer"
    /\ ppc' = "insert"
    /\ UNCHANGED <<sessionVars, audio_buffer_, vadVars, globalVars, alive,
                   deviceVars, data, cpc, call, historyVars, traceVars>>

\* Mutant of handle_insert: buffer_mutex_ is still held when the handler
\* goes on to the VAD block.
handle_insert_keeps_lock ==
    /\ alive
    /\ ppc = "insert"
    /\ audio_buffer_' = buffer_insert(audio_buffer_, data)
    /\ appendedSince' = TRUE
    /\ inserted' = inserted + (Len(audio_buffer_') - Len(audio_buffer_))
    /\ ppc' = "lock_vad"
    /\ UNCHANGED <<sessionVars, buffer_mutex_, vadVars, globalVars, alive,
                   deviceVars, data, cpc, call, arrived, taken, cleared,
                   vadSeen, drained, cbLog, accounted, lastIgnored>>

handle_insert ==
    /\ alive
    /\ ppc = "insert"
    /\ audio_buffer_' = buffer_insert(audio_buffer_, data)
    /\ buffer_mutex_' = "free"
    /\ appendedSince' = TRUE
    /\ inserted' = inserted + (Len(audio_buffer_') - Len(audio_buffer_))
    /\ ppc' = "lock_vad"
    /\ UNCHANGED <<sessionVars, vadVars, globalVars, alive, deviceVars, data,
                   cpc, call, arrived, taken, cleared, vadSeen, drained,
                   cbLog, accounted, lastIgnored>>

handle_lock_vad ==
    /\ alive
    /\ ppc = "lock_vad"
    /\ vad_mutex_ = "free"
    /\ vad_mutex_' = "producer"
    /\ ppc' = "vad"
    /\ UNCHANGED <<sessionVars, bufferVars, ready_to_process_, has_speech_,
                   speech_sample_count_, silence_sample_count_, globalVars,
                   alive, deviceVars, data, cpc, call, historyVars, traceVars>>

\* Mutant of handle_vad: a session with a user callback installed leaves the
\* accounting to the callback.
handle_vad_unless_callback ==
    /\ alive
    /\ ppc = "vad"
    /\ SetVad(IF callback_ THEN vad
              ELSE vad_update(vad, is_speech(data), Len(data)))
    /\ vadSeen' = Append(vadSeen, [speech |-> is_speech(data), n |-> Len(data)])
    /\ accounted' = accounted + 1
    /\ vad_mutex_' = "free"
    /\ ppc' = "callback"
    /\ UNCHANGED <<sessionVars, bufferVars, globalVars, alive, deviceVars,
                   data, cpc, call, arrived, taken, cleared, drained,
                   appendedSince, cbLog, inserted, lastIgnored>>

handle_vad ==
    /\ alive
    /\ ppc = "vad"
    /\ SetVad(vad_update(vad, is_speech(data), Len(data)))
    /\ vadSeen' = Append(vadSeen, [speech |-> is_speech(data), n |-> Len(data)])
    /\ accounted' = accounted + 1
    /\ vad_mutex_' = "free"
    /\ ppc' = "callback"
    /\ UNCHANGED <<sessionVars, bufferVars, globalVars, alive, deviceVars,
                   data, cpc, call, arrived, taken, cleared, drained,
                   appendedSince, cbLog, inserted, lastIgnored>>

\* Mutant of handle_callback: the user callback is handed the accumulated
\* buffer in place of a copy of the batch.
handle_callback_hands_buffer ==
    /\ alive
    /\ ppc = "callback"
    /\ cbLog' = IF callback_ THEN Append(cbLog, audio_buffer_) ELSE cbLog
    /\ ppc' = "idle"
    /\ data' = <<>>
    /\ UNCHANGED <<sessionVars, bufferVars, vadVars, globalVars, alive,
                   deviceVars, cpc, call, historyVars, inserted, accounted,
                   lastIgnored>>

\* if (callback_) callback_(copy of the batch); then handle_audio_data
\* returns.  The user callback here calls no method of the session.
handle_callback ==
    /\ alive
    /\ ppc = "callback"
    /\ cbLog' = IF callback_ THEN Append(cbLog, data) ELSE cbLog
    /\ ppc' = "idle"
    /\ data' = <<>>
    /\ UNCHANGED <<sessionVars, bufferVars, vadVars, globalVars, alive,
                   deviceVars, cpc, call, historyVars, inserted, accounted,
                   lastIgnored>>

Producer ==
    \/ pa_callback
    \/ pa_callback_empty
    \/ handle_lock_buffer
    \/ handle_insert
    \/ handle_lock_vad
    \/ handle_vad
    \/ handle_callback

(***************************************************************************)
(* The application thread: buffer and VAD methods.                         *)
(***************************************************************************)
get_audio_buffer_lock ==
    /\ alive
    /\ cpc = "idle"
    /\ buffer_mutex_ = "free"
    /\ buffer_mutex_' = "consumer"
    /\ cpc' = "get_audio_buffer"
    /\ UNCHANGED <<sessionVars, audio_buffer_, vadVars, globalVars, alive,
                   deviceVars, producerVars, call, historyVars, traceVars>>

get_audio_buffer_swap ==
    /\ alive
    /\ cpc = "get_audio_buffer"
    /\ LET r == buffer_swap(audio_buffer_)
       IN /\ audio_buffer_' = r.buf
          /\ taken' = taken \o r.ret
          /\ call' = [Done("get_audio_buffer", TRUE, r.ret, <<>>)
                        EXCEPT !.afterClear = (call.op = "clear_buffer"),
                               !.fresh = appendedSince]
    /\ buffer_mutex_' = "free"
    /\ drained' = TRUE
    /\ appendedSince' = FALSE
    /\ cpc' = "idle"
    /\ UNCHANGED <<sessionVars, vadVars, globalVars, alive, deviceVars,
                   producerVars, arrived, cleared, vadSeen, traceVars>>

clear_buffer_lock ==
    /\ alive
    /\ cpc = "idle"
    /\ buffer_mutex_ = "free"
    /\ buffer_mutex_' = "consumer"
    /\ cpc' = "clear_buffer"
    /\ UNCHANGED <<sessionVars, audio_buffer_, vadVars, globalVars, alive,
                   deviceVars, producerVars, call, historyVars, traceVars>>

\* Mutant of clear_buffer_clear: the VAD state is reset with the buffer.
clear_buffer_clear_resets_vad ==
    /\ alive
    /\ cpc = "clear_buffer"
    /\ audio_buffer_' = buffer_clear(audio_buffer_)
    /\ SetVad(vad_reset(vad))
    /\ buffer_mutex_' = "free"
    /\ call' = Done("clear_buffer", TRUE, <<>>, <<>>)
    /\ cleared' = TRUE
    /\ drained' = TRUE
    /\ appendedSince' = FALSE
    /\ cpc' = "idle"
    /\ UNCHANGED <<sessionVars, vad_mutex_, globalVars, alive, deviceVars,
                   producerVars, arrived, taken, vadSeen, traceVars>>

clear_buffer_clear ==
    /\ alive
    /\ cpc = "clear_buffer"
    /\ audio_buffer_' = buffer_clear(audio_buffer_)
    /\ buffer_mutex_' = "free"
    /\ call' = Done("clear_buffer", TRUE, <<>>, <<>>)
    /\ cleared' = TRUE
    /\ drained' = TRUE
    /\ appendedSince' = FALSE
    /\ cpc' = "idle"
    /\ UNCHANGED <<sessionVars, vadVars, globalVars, alive, deviceVars,
                   producerVars, arrived, taken, vadSeen, traceVars>>

is_ready_to_process_lock ==
    /\ alive
    /\ cpc = "idle"
    /\ vad_mutex_ = "free"
    /\ vad_mutex_' = "consumer"
    /\ cpc' = "is_ready_to_process"
    /\ UNCHANGED <<sessionVars, bufferVars, ready_to_process_, has_speech_,
                   speech_sample_count_, silence_sample_count_, globalVars,
                   alive, deviceVars, producerVars, call, historyVars, traceVars>>

is_ready_to_process_read ==
    /\ alive
    /\ cpc = "is_ready_to_process"
    /\ call' = Done("is_ready_to_process", ready_to_process_, <<>>, <<>>)
    /\ vad_mutex_' = "free"
    /\ cpc' = "idle"
    /\ UNCHANGED <<sessionVars, bufferVars, ready_to_process_, has_speech_,
                   speech_sample_count_, silence_sample_count_, globalVars,
                   alive, deviceVars, producerVars, historyVars, traceVars>>

reset_vad_state_lock ==
    /\ alive
    /\ cpc = "idle"
    /\ vad_mutex_ = "free"
    /\ vad_mutex_' = "consumer"
    /\ cpc' = "reset_vad_state"
    /\ UNCHANGED <<sessionVars, bufferVars, ready_to_process_, has_speech_,
                   speech_sample_count_, silence_sample_count_, globalVars,
                   alive, deviceVars, producerVars, call, historyVars, traceVars>>

reset_vad_state_body ==
    /\ alive
    /\ cpc = "reset_vad_state"
    /\ SetVad(vad_reset(vad))
    /\ vad_mutex_' = "free"
    /\ call' = Done("reset_vad_state", TRUE, <<>>, <<>>)
    /\ vadSeen' = <<>>
    /\ drained' = FALSE
    /\ cpc' = "idle"
    /\ UNCHANGED <<sessionVars, bufferVars, globalVars, alive, deviceVars,
                   producerVars, arrived, taken, cleared, appendedSince, traceVars>>

Consumer ==
    \/ get_audio_buffer_lock
    \/ get_audio_buffer_swap
    \/ clear_buffer_lock
    \/ clear_buffer_clear
    \/ is_ready_to_process_lock
    \/ is_ready_to_process_read
    \/ reset_vad_state_lock
    \/ reset_vad_state_body

(***************************************************************************)
(* The application thread: the session's lifecycle.  The device layer      *)
(* answers each request with success or an error of its own choosing.      *)
(***************************************************************************)

\* Mutant of start_body: capturing_ set before the device layer answers.
start_body_sets_flag_first(cap, strm, accepted) ==
    IF strm = 0
    THEN [ok |-> FALSE, capturing |-> cap, reqs |-> <<>>, run |-> {}]
    ELSE IF cap
    THEN [ok |-> TRUE, capturing |-> cap, reqs |-> <<>>, run |-> {}]
    ELSE IF ~accepted
    THEN [ok |-> FALSE, capturing |-> TRUE, reqs |-> <<"start_stream">>, run |-> {}]
    ELSE [ok |-> TRUE, capturing |-> TRUE, reqs |-> <<"start_stream">>, run |-> {strm}]

\* start(): the result, the capturing flag after it, the device requests it
\* made and the streams the device layer began to run.
start_body(cap, strm, accepted) ==
    IF strm = 0
    THEN [ok |-> FALSE, capturing |-> cap, reqs |-> <<>>, run |-> {}]
    ELSE IF cap
    THEN [ok |-> TRUE, capturing |-> cap, reqs |-> <<>>, run |-> {}]
    ELSE IF ~accepted
    THEN [ok |-> FALSE, capturing |-> cap, reqs |-> <<"start_stream">>, run |-> {}]
    ELSE [ok |-> TRUE, capturing |-> TRUE, reqs |-> <<"start_stream">>, run |-> {strm}]

\* stop(): the capturing flag after it, the device requests it made and the
\* streams the device layer halted.
stop_body(cap, strm, accepted) ==
    IF ~cap
    THEN [capturing |-> cap, reqs |-> <<>>, halt |-> {}]
    ELSE IF strm # 0 /\ ~accepted
    THEN [capturing |-> cap, reqs |-> <<"stop_stream">>, halt |-> {}]
    ELSE IF strm # 0
    THEN [capturing |-> FALSE, reqs |-> <<"stop_stream">>, halt |-> {strm}]
    ELSE [capturing |-> FALSE, reqs |-> <<>>, halt |-> {}]

\* A failed Pa_OpenStream leaves stream_ as it was.
initialize ==
    /\ alive
    /\ cpc = "idle"
    /\ g_portaudio_ref_count < MaxInits
    /\ \E initOk, hasDevice, openOk \in BOOLEAN :
         IF ~g_portaudio_initialized /\ ~initOk
         THEN /\ call' = Done("initialize", FALSE, <<>>, <<>>)
              /\ UNCHANGED <<stream_, opened, globalVars>>
         ELSE /\ g_portaudio_initialized' = TRUE
              /\ g_portaudio_ref_count' = g_portaudio_ref_count + 1
              /\ IF ~hasDevice
                 THEN /\ call' = Done("initialize", FALSE, <<>>, <<>>)
                      /\ UNCHANGED <<stream_, opened>>
                 ELSE IF ~openOk
                 THEN /\ call' = Done("initialize", FALSE, <<>>, <<"open_stream">>)
                      /\ UNCHANGED <<stream_, opened>>
                 ELSE /\ stream_' = g_portaudio_ref_count + 1
                      /\ opened' = opened \cup {g_portaudio_ref_count + 1}
                      /\ call' = Done("initialize", TRUE, <<>>, <<"open_stream">>)
    /\ UNCHANGED <<callback_, capturing_, bufferVars, vadVars, alive, started,
                   producerVars, cpc, historyVars, traceVars>>

start ==
    /\ alive
    /\ cpc = "idle"
    /\ \E accepted \in BOOLEAN :
         LET r == start_body(capturing_, stream_, accepted)
         IN /\ capturing_' = r.capturing
            /\ started' = started \cup r.run
            /\ call' = Done("start", r.ok, <<>>, r.reqs)
    /\ UNCHANGED <<callback_, stream_, bufferVars, vadVars, globalVars, alive,
                   opened, producerVars, cpc, historyVars, traceVars>>

stop ==
    /\ alive
    /\ cpc = "idle"
    /\ \E accepted \in BOOLEAN :
         LET r == stop_body(capturing_, stream_, accepted)
         IN /\ capturing_' = r.capturing
            /\ started' = started \ r.halt
            /\ call' = Done("stop", TRUE, <<>>, r.reqs)
    /\ UNCHANGED <<callback_, stream_, bufferVars, vadVars, globalVars, alive,
                   opened, producerVars, cpc, historyVars, traceVars>>

set_callback ==
    /\ alive
    /\ cpc = "idle"
    /\ \E cb \in BOOLEAN : callback_' = cb
    /\ call' = Done("set_callback", TRUE, <<>>, <<>>)
    /\ UNCHANGED <<capturing_, stream_, bufferVars, vadVars, globalVars, alive,
                   deviceVars, producerVars, cpc, historyVars, traceVars>>

\* ~AudioCapture(): stop(), then Pa_CloseStream if a stream is held
destroy ==
    /\ alive
    /\ cpc = "idle"
    /\ \E accepted \in BOOLEAN :
         LET r == stop_body(capturing_, stream_, accepted)
         IN /\ capturing_' = r.capturing
            /\ started' = (started \ r.halt) \ {stream_}
            /\ call' = Done("~AudioCapture", TRUE, <<>>,
                            r.reqs \o (IF stream_ # 0 THEN <<"close_stream">> ELSE <<>>))
    /\ opened' = opened \ {stream_}
    /\ stream_' = 0
    /\ alive' = FALSE
    /\ UNCHANGED <<callback_, bufferVars, vadVars, globalVars, producerVars,
                   cpc, historyVars, traceVars>>

Lifecycle ==
    \/ initialize
    \/ start
    \/ stop
    \/ set_callback
    \/ destroy

(***************************************************************************)
(* Spec: the capture pipeline.  The application initializes the session    *)
(* until it holds a stream, starts and stops it, and uses the buffer and   *)
(* VAD methods while the device layer delivers batches.                    *)
(* SpecLifecycle: every lifecycle method in any order, re-initialization   *)
(* and destruction included, with a device layer that delivers no audio.   *)
(* SpecCallback: the capture pipeline of a session whose user callback is  *)
(* installed, or left unset, before start(), as set_callback requires of   *)
(* a caller that accepts no race with the producer's read of callback_.    *)
(***************************************************************************)
initialize_once == stream_ = 0 /\ initialize

Next == Producer \/ Consumer \/ initialize_once \/ start \/ stop

Spec == Init /\ [][Next]_vars

NextLifecycle == Lifecycle

SpecLifecycle == Init /\ [][NextLifecycle]_vars

set_callback_before_start == ~capturing_ /\ started = {} /\ set_callback

NextCallback ==
    \/ Producer
    \/ Consumer
    \/ initialize_once
    \/ start
    \/ set_callback_before_start

SpecCallback == Init /\ [][NextCallback]_vars

(***************************************************************************)
(* A user callback that calls the session's buffer and VAD methods: the    *)
(* producer thread, inside callback_, runs at most one of them and         *)
(* returns.                                                                *)
(***************************************************************************)

\* if (callback_) callback_(copy of the batch): control enters the callback
callback_enter ==
    /\ alive
    /\ ppc = "callback"
    /\ callback_
    /\ cbLog' = Append(cbLog, data)
    /\ ppc' = "user_callback"
    /\ UNCHANGED <<sessionVars, bufferVars, vadVars, globalVars, alive,
                   deviceVars, data, cpc, call, historyVars, inserted,
                   accounted, lastIgnored>>

callback_get_audio_buffer_lock ==
    /\ alive
    /\ ppc = "user_callback"
    /\ buffer_mutex_ = "free"
    /\ buffer_mutex_' = "producer"
    /\ ppc' = "callback_get_audio_buffer"
    /\ UNCHANGED <<sessionVars, audio_buffer_, vadVars, globalVars, alive,
                   deviceVars, data, cpc, call, historyVars, traceVars>>

callback_get_audio_buffer_swap ==
    /\ alive
    /\ ppc = "callback_get_audio_buffer"
    /\ LET r == buffer_swap(audio_buffer_)
       IN /\ audio_buffer_' = r.buf
          /\ taken' = taken \o r.ret
    /\ buffer_mutex_' = "free"
    /\ drained' = TRUE
    /\ appendedSince' = FALSE
    /\ ppc' = "user_callback_done"
    /\ UNCHANGED <<sessionVars, vadVars, globalVars, alive, deviceVars, data,
                   cpc, call, arrived, cleared, vadSeen, traceVars>>

callback_clear_buffer_lock ==
    /\ alive
    /\ ppc = "user_callback"
    /\ buffer_mutex_ = "free"
    /\ buffer_mutex_' = "producer"
    /\ ppc' = "callback_clear_buffer"
    /\ UNCHANGED <<sessionVars, audio_buffer_, vadVars, globalVars, alive,
                   deviceVars, data, cpc, call, historyVars, traceVars>>

callback_clear_buffer_clear ==
    /\ alive
    /\ ppc = "callback_clear_buffer"
    /\ audio_buffer_' = buffer_clear(audio_buffer_)
    /\ buffer_mutex_' = "free"
    /\ cleared' = TRUE
    /\ drained' = TRUE
    /\ appendedSince' = FALSE
    /\ ppc' = "user_callback_done"
    /\ UNCHANGED <<sessionVars, vadVars, globalVars, alive, deviceVars, data,
                   cpc, call, arrived, taken, vadSeen, traceVars>>

callback_is_ready_to_process_lock ==
    /\ alive
    /\ ppc = "user_callback"
    /\ vad_mutex_ = "free"
    /\ vad_mutex_' = "producer"
    /\ ppc' = "callback_is_ready_to_process"
    /\ UNCHANGED <<sessionVars, bufferVars, VadFields, globalVars, alive,
                   deviceVars, data, cpc, call, historyVars, traceVars>>

callback_is_ready_to_process_read ==
    /\ alive
    /\ ppc = "callback_is_ready_to_process"
    /\ vad_mutex_' = "free"
    /\ ppc' = "user_callback_done"
    /\ UNCHANGED <<sessionVars, bufferVars, VadFields, globalVars, alive,
                   deviceVars, data, cpc, call, historyVars, traceVars>>

callback_reset_vad_state_lock ==
    /\ alive
    /\ ppc = "user_callback"
    /\ vad_mutex_ = "free"
    /\ vad_mutex_' = "producer"
    /\ ppc' = "callback_reset_vad_state"
    /\ UNCHANGED <<sessionVars, bufferVars, VadFields, globalVars, alive,
                   deviceVars, data, cpc, call, historyVars, traceVars>>

callback_reset_vad_state_body ==
    /\ alive
    /\ ppc = "callback_reset_vad_state"
    /\ SetVad(vad_reset(vad))
    /\ vad_mutex_' = "free"
    /\ vadSeen' = <<>>
    /\ drained' = FALSE
    /\ ppc' = "user_callback_done"
    /\ UNCHANGED <<sessionVars, bufferVars, globalVars, alive, deviceVars,
                   data, cpc, call, arrived, taken, cleared, appendedSince,
                   traceVars>>

\* the user callback returns, and handle_audio_data after it
callback_return ==
    /\ alive
    /\ ppc \in {"user_callback", "user_callback_done"}
    /\ ppc' = "idle"
    /\ data' = <<>>
    /\ UNCHANGED <<sessionVars, bufferVars, vadVars, globalVars, alive,
                   deviceVars, cpc, call, historyVars, traceVars>>

CallbackCalls ==
    \/ callback_enter
    \/ callback_get_audio_buffer_lock
    \/ callback_get_audio_buffer_swap
    \/ callback_clear_buffer_lock
    \/ callback_clear_buffer_clear
    \/ callback_is_ready_to_process_lock
    \/ callback_is_ready_to_process_read
    \/ callback_reset_vad_state_lock
    \/ callback_reset_vad_state_body
    \/ callback_return

\* The producer's steps past the delivery of a batch.
Handler ==
    \/ handle_lock_buffer
    \/ handle_insert
    \/ handle_lock_vad
    \/ handle_vad
    \/ handle_callback

pa_callback_fair ==
    /\ Len(arrived) < MaxFairBatches
    /\ pa_callback_of(FairBatches)

NextFair ==
    \/ pa_callback_fair
    \/ Handler
    \/ CallbackCalls
    \/ Consumer
    \/ initialize_once
    \/ start
    \/ set_callback_before_start

\* The steps a thread takes without waiting: the producer's between its
\* lock acquisitions, the return of the user callback included, and the
\* application thread's inside its critical sections.
ProducerRuns ==
    \/ handle_insert
    \/ handle_vad
    \/ handle_callback
    \/ callback_enter
    \/ callback_get_audio_buffer_swap
    \/ callback_clear_buffer_clear
    \/ callback_is_ready_to_process_read
    \/ callback_reset_vad_state_body
    \/ callback_return

ConsumerRuns ==
    \/ get_audio_buffer_swap
    \/ clear_buffer_clear
    \/ is_ready_to_process_read
    \/ reset_vad_state_body

\* Fair scheduling: a thread that can run does run, the user callback
\* returns, and a thread waiting for a lock that is free again and again
\* does get it.
FairScheduling ==
    /\ WF_vars(ProducerRuns)
    /\ WF_vars(ConsumerRuns)
    /\ SF_vars(handle_lock_buffer)
    /\ SF_vars(handle_lock_vad)

(***************************************************************************)
(* SpecFair: the pipeline under fair scheduling, with a user callback that *)
(* may call the session's methods.                                         *)
(***************************************************************************)
SpecFair == Init /\ [][NextFair]_vars /\ FairScheduling

(***************************************************************************)
(* Reference notions the claims are stated with, defined on the histories  *)
(* and not on the code's counters.                                         *)
(***************************************************************************)
RECURSIVE Flatten(_)
Flatten(bs) == IF bs = <<>> THEN <<>> ELSE Head(bs) \o Flatten(Tail(bs))

\* The batch handle_audio_data holds and has not appended yet.
Pending == IF ppc \in {"lock_buffer", "insert"} THEN data ELSE <<>>

\* Samples in the contiguous run of speech batches that ends at h[i].
RECURSIVE SpeechRunAt(_, _)
SpeechRunAt(h, i) ==
    IF i = 0 \/ ~h[i].speech THEN 0 ELSE h[i].n + SpeechRunAt(h, i - 1)

\* Samples in the contiguous run of silence batches that ends at h[i].
RECURSIVE SilenceRunAt(_, _)
SilenceRunAt(h, i) ==
    IF i = 0 \/ h[i].speech THEN 0 ELSE h[i].n + SilenceRunAt(h, i - 1)

RECURSIVE SpeechSamples(_)
SpeechSamples(h) ==
    IF h = <<>> THEN 0
    ELSE (IF Head(h).speech THEN Head(h).n ELSE 0) + SpeechSamples(Tail(h))

\* Some contiguous speech run of h reached min_speech_samples.
SomeRunConfirms(h) ==
    \E i \in 1..Len(h) : SpeechRunAt(h, i) >= min_speech_samples_

\* h holds a confirming speech run and, later, a silence run that reached
\* silence_threshold_samples.
Crossed(h) ==
    \E i \in 1..Len(h) : \E j \in (i + 1)..Len(h) :
        /\ SpeechRunAt(h, i) >= min_speech_samples_
        /\ SilenceRunAt(h, j) >= silence_samples_threshold_

(***************************************************************************)
(* Claims.                                                                 *)
(***************************************************************************)

\* C1: with no clear_buffer call, under every interleaving of the producer's
\* appends and the consumer's get_audio_buffer calls, the results of all
\* get_audio_buffer calls in call order, then the samples still in the
\* buffer, then the batch the producer has not appended yet, are the batches
\* in arrival order: no sample is lost, duplicated or reordered.
C1_TakesConcatenateToArrivals ==
    ~cleared => taken \o audio_buffer_ \o Pending = Flatten(arrived)

C1_Witness ==
    /\ ~cleared
    /\ Len(arrived) >= 3
    /\ call.op = "get_audio_buffer"
    /\ taken # <<>>
    /\ Len(taken) > Len(call.out)
    /\ audio_buffer_ # <<>>

\* C2: since the last reset_vad_state (or construction) has_speech is true
\* exactly when some contiguous run of speech batches, uninterrupted by a
\* silence batch, accumulated at least min_speech_samples; where no run did,
\* ready_to_process is false as well.
C2_SpeechConfirmedByOneRun ==
    /\ has_speech_ <=> SomeRunConfirms(vadSeen)
    /\ ready_to_process_ => SomeRunConfirms(vadSeen)

\* speech, silence, speech: the speech samples together reach the minimum,
\* no single run does
C2_Witness ==
    /\ Len(vadSeen) = 3
    /\ vadSeen[1].speech /\ ~vadSeen[2].speech /\ vadSeen[3].speech
    /\ SpeechSamples(vadSeen) >= min_speech_samples_
    /\ ~has_speech_

\* C3: with no reset in between, ready_to_process is true exactly from the
\* silence batch on that brings the contiguous silence run after confirmed
\* speech to silence_threshold_samples, and at no earlier batch.
C3_ReadyExactlyAtCrossing ==
    ready_to_process_ <=> Crossed(vadSeen)

\* confirmed speech, a silence batch below the threshold, the silence batch
\* that crosses it
C3_Witness ==
    /\ Len(vadSeen) = 3
    /\ SpeechRunAt(vadSeen, 1) >= min_speech_samples_
    /\ SilenceRunAt(vadSeen, 2) > 0
    /\ SilenceRunAt(vadSeen, 2) < silence_samples_threshold_
    /\ SilenceRunAt(vadSeen, 3) >= silence_samples_threshold_
    /\ ready_to_process_

\* C4: ready_to_process is latched: a step that takes it from true to false
\* is the body of reset_vad_state; no batch of either classification and no
\* get_audio_buffer, clear_buffer, is_ready_to_process, start or stop does.
C4_ReadyLatched ==
    [][(ready_to_process_ /\ ~ready_to_process_')
          => (cpc = "reset_vad_state" /\ call'.op = "reset_vad_state")]_vars

\* a speech batch accounted after the latch
C4_Witness ==
    /\ Len(vadSeen) = 3
    /\ Crossed(SubSeq(vadSeen, 1, 2))
    /\ vadSeen[3].speech
    /\ ready_to_process_

\* The batches whose samples are in the buffer: the last batches appended,
\* as many as make up the buffer's length.
RECURSIVE LastBatches(_, _)
LastBatches(bs, len) ==
    IF len <= 0 \/ bs = <<>> THEN <<>>
    ELSE Append(LastBatches(SubSeq(bs, 1, Len(bs) - 1), len - Len(bs[Len(bs)])),
                bs[Len(bs)])

AppendedBatches ==
    IF ppc \in {"lock_buffer", "insert"}
    THEN SubSeq(arrived, 1, Len(arrived) - 1)
    ELSE arrived

Classified(bs) ==
    [k \in 1..Len(bs) |-> [speech |-> is_speech(bs[k]), n |-> Len(bs[k])]]

\* C5: when is_ready_to_process() has returned true and the consumer has not
\* called get_audio_buffer or clear_buffer since its last reset_vad_state,
\* the buffer holds a complete utterance: a speech run of at least
\* min_speech_samples and, later, a silence run of at least
\* silence_threshold_samples.
C5_ReadyMeansUtteranceInBuffer ==
    (call.op = "is_ready_to_process" /\ call.ok /\ ~drained)
        => Crossed(Classified(LastBatches(AppendedBatches, Len(audio_buffer_))))

\* C6: stop() on a capturing session leaves it not capturing, whether or not
\* the device layer's stop request reported an error; stop() on a session
\* that is not capturing makes no device request and changes nothing.
C6_StopClearsCapturing ==
    [][call'.op = "stop" =>
          /\ ~capturing_'
          /\ ~capturing_ => (call'.reqs = <<>> /\ UNCHANGED <<stream_, deviceVars>>)]_vars

\* C7: start() fails and leaves capturing false when the session holds no
\* stream and when the device layer rejects the request; when already
\* capturing it succeeds without a device request; capturing becomes true
\* only by a start() whose request the device layer accepted.
C7_StartContract ==
    [][/\ call'.op = "start" =>
            /\ stream_ = 0 =>
                 (~call'.ok /\ ~capturing_' /\ call'.reqs = <<>>)
            /\ (stream_ # 0 /\ capturing_) =>
                 (call'.ok /\ capturing_' /\ call'.reqs = <<>>)
            /\ ~call'.ok => (~capturing_ /\ ~capturing_')
            /\ (stream_ # 0 /\ ~capturing_) => call'.reqs = <<"start_stream">>
       /\ (~capturing_ /\ capturing_') =>
            /\ call'.op = "start"
            /\ call'.ok
            /\ call'.reqs = <<"start_stream">>
            /\ stream_ \in started']_vars

\* initialize() failed, and start() then failed for want of a stream
C7_Witness ==
    /\ call.op = "start"
    /\ ~call.ok
    /\ call.reqs = <<>>
    /\ stream_ = 0
    /\ g_portaudio_ref_count > 0
    /\ ~capturing_

\* C8: destruction stops first and then releases the stream if held: when it
\* completes the session is not capturing and holds no stream, a stop
\* request precedes the close request, and a session that holds no stream
\* makes no close request.
C8_DestructionStopsThenCloses ==
    [][(alive /\ ~alive') =>
          /\ ~capturing_'
          /\ stream_' = 0
          /\ stream_ = 0 => call'.reqs = <<>>
          /\ stream_ # 0 =>
                call'.reqs = IF capturing_
                             THEN <<"stop_stream", "close_stream">>
                             ELSE <<"close_stream">>]_vars

\* C9: on an initialized and started session, clear_buffer() immediately
\* followed by get_audio_buffer() returns an empty sequence.
C9_ClearThenGetIsEmpty ==
    (call.op = "get_audio_buffer" /\ call.afterClear /\ stream_ # 0 /\ capturing_)
        => call.out = <<>>

\* C10: a get_audio_buffer returns a non-empty result exactly when a batch
\* was appended since the previous take or clear, and leaves the buffer
\* empty: of two consecutive takes with no append between them the second
\* returns an empty result.
C10_TakeDrains ==
    /\ call.op = "get_audio_buffer" => (call.fresh <=> call.out # <<>>)
    /\ ~appendedSince => audio_buffer_ = <<>>

\* a take with nothing appended since the previous, non-empty, take
C10_Witness ==
    /\ call.op = "get_audio_buffer"
    /\ ~call.fresh
    /\ call.out = <<>>
    /\ ~cleared
    /\ taken # <<>>

\* C11: once reset_vad_state has returned, and for as long as the producer
\* has accounted no batch since, ready_to_process_ and has_speech_ are false
\* and both sample counts are 0, whatever the VAD state was before.
C11_ResetRestoresInitialVad ==
    (call.op = "reset_vad_state" /\ cpc = "idle" /\ vadSeen = <<>>)
        => /\ ~ready_to_process_
           /\ ~has_speech_
           /\ speech_sample_count_ = 0
           /\ silence_sample_count_ = 0

\* a reset on a session whose VAD had accounted two batches or more
C11_Witness ==
    /\ call.op = "reset_vad_state"
    /\ cpc = "idle"
    /\ vadSeen = <<>>
    /\ accounted >= 2
    /\ speech_sample_count_ = 0

\* C17: the VAD keeps counting while ready_to_process_ is set: the producer's
\* accounting of a speech batch of n samples adds n to speech_sample_count_
\* and zeroes silence_sample_count_, that of a silence batch of n samples
\* adds n to silence_sample_count_ and leaves speech_sample_count_.
C17_ReadyDoesNotFreezeVad ==
    [][(ppc = "vad" /\ ppc' = "callback" /\ ready_to_process_) =>
          IF is_speech(data)
          THEN /\ speech_sample_count_' = speech_sample_count_ + Len(data)
               /\ silence_sample_count_' = 0
          ELSE /\ silence_sample_count_' = silence_sample_count_ + Len(data)
               /\ speech_sample_count_' = speech_sample_count_]_vars

\* a speech batch accounted after the end of the utterance: the session is
\* ready to process with a silence count below the threshold
C17_Witness ==
    /\ ppc = "callback"
    /\ is_speech(data)
    /\ ready_to_process_
    /\ silence_sample_count_ < silence_samples_threshold_

\* C18: no step of get_audio_buffer or clear_buffer changes a VAD field, no
\* step of reset_vad_state or is_ready_to_process changes the buffer,
\* is_ready_to_process changes no field of the session and leaves
\* vad_mutex_ free, and a VAD field changes only in the producer's
\* accounting step or in the body of reset_vad_state.
C18_FrameEffects ==
    [][/\ (cpc' # cpc /\ {cpc, cpc'} \cap {"get_audio_buffer", "clear_buffer"} # {})
            => UNCHANGED VadFields
       /\ (cpc' # cpc /\ {cpc, cpc'} \cap {"reset_vad_state", "is_ready_to_process"} # {})
            => UNCHANGED audio_buffer_
       /\ (cpc' # cpc /\ {cpc, cpc'} \cap {"is_ready_to_process"} # {})
            => UNCHANGED <<sessionVars, audio_buffer_, VadFields, buffer_mutex_>>
       /\ (cpc = "is_ready_to_process" /\ cpc' = "idle")
            => vad_mutex_' = "free"
       /\ VadFields' # VadFields
            => \/ ppc = "vad" /\ ppc' = "callback"
               \/ cpc = "reset_vad_state" /\ cpc' = "idle"]_vars

\* a non-empty take and a clear, each completed while the VAD holds
\* confirmed speech
C18_Witness ==
    /\ call.op \in {"get_audio_buffer", "clear_buffer"}
    /\ cpc = "idle"
    /\ cleared
    /\ taken # <<>>
    /\ has_speech_
    /\ speech_sample_count_ > 0

\* C19: in every reachable state ready_to_process_ implies has_speech_, a
\* positive silence_sample_count_ implies has_speech_, and has_speech_
\* implies speech_sample_count_ >= min_speech_samples_.
C19_VadFlagsAndCounts ==
    /\ ready_to_process_ => has_speech_
    /\ silence_sample_count_ > 0 => has_speech_
    /\ has_speech_ => speech_sample_count_ >= min_speech_samples_

\* the end of an utterance: all three antecedents hold
C19_Witness ==
    /\ ready_to_process_
    /\ silence_sample_count_ > 0
    /\ has_speech_

\* C14: a null or zero-length batch delivered to pa_callback is a no-op:
\* the delivery leaves the buffer, the four VAD fields, the locks and the
\* producer where they were and invokes no user callback, and no such batch
\* is ever among the batches handle_audio_data buffers, accounts or hands
\* to the user callback.
C14_EmptyBatchIsNoOp ==
    /\ [](ppc # "idle" => data # <<>>)
    /\ [](\A i \in 1..Len(arrived) : arrived[i] # <<>>)
    /\ [](\A i \in 1..Len(cbLog) : cbLog[i] # <<>>)
    /\ [][(lastIgnored' /\ ~lastIgnored) =>
            UNCHANGED <<audio_buffer_, VadFields, buffer_mutex_, vad_mutex_,
                        cbLog, inserted, accounted, producerVars,
                        historyVars, sessionVars>>]_vars

\* a null or zero-length batch delivered to a session with a user callback
\* installed, a non-empty buffer and a speech count above zero
C14_Witness ==
    /\ lastIgnored
    /\ callback_
    /\ audio_buffer_ # <<>>
    /\ speech_sample_count_ > 0
    /\ cbLog # <<>>

\* C15: for every non-empty batch handle_audio_data appends it, accounts it
\* in the VAD and, if a user callback is set, invokes the callback, each
\* once and in that order, the callback with a copy equal to the batch: the
\* samples put into the buffer are those of the batches past the append,
\* the accounted batches are those past the VAD step, the callback has been
\* handed exactly the batches whose handling is over, and at the step that
\* invokes it the batch is already appended and accounted.
C15_AppendAccountThenCallback ==
    /\ [](inserted = Len(Flatten(AppendedBatches)))
    /\ [](accounted = IF ppc \in {"callback", "idle"}
                      THEN Len(arrived) ELSE Len(arrived) - 1)
    /\ [](cbLog = IF callback_
                  THEN SubSeq(arrived, 1, IF ppc = "idle" THEN Len(arrived)
                                          ELSE Len(arrived) - 1)
                  ELSE <<>>)
    /\ [][cbLog' # cbLog =>
            /\ cbLog' = Append(cbLog, arrived[Len(arrived)])
            /\ inserted = Len(Flatten(arrived))
            /\ accounted = Len(arrived)
            /\ UNCHANGED <<audio_buffer_, VadFields>>]_vars

\* the user callback has been invoked for two batches or more
C15_Witness ==
    /\ callback_
    /\ ppc = "idle"
    /\ Len(cbLog) >= 2
    /\ cbLog = arrived

IsSuffix(s, t) ==
    Len(s) <= Len(t) /\ s = SubSeq(t, Len(t) - Len(s) + 1, Len(t))

\* The index of the batch that confirms speech in h.
FirstConfirm(h) ==
    CHOOSE i \in 1..Len(h) :
        /\ SpeechRunAt(h, i) >= min_speech_samples_
        /\ \A j \in 1..(i - 1) : SpeechRunAt(h, j) < min_speech_samples_

\* The speech count after the batches of h: the samples of the run in
\* progress, or every speech sample from the start of the confirming run.
SpeechCountAfter(h) ==
    IF SomeRunConfirms(h)
    THEN SpeechRunAt(h, FirstConfirm(h))
            + SpeechSamples(SubSeq(h, FirstConfirm(h) + 1, Len(h)))
    ELSE SpeechRunAt(h, Len(h))

\* The silence count after the batches of h: the silence that ends h, once
\* speech is confirmed.
SilenceCountAfter(h) ==
    IF SomeRunConfirms(h) THEN SilenceRunAt(h, Len(h)) ELSE 0

\* C12: buffering and VAD accounting do not depend on whether a user
\* callback is installed: with a callback and without one, the buffer and
\* the four VAD fields are the same functions of the batches delivered and
\* of the consumer's takes, clears and resets, so two runs that differ only
\* in the callback go through the same buffer contents and VAD values.
C12_CallbackDoesNotAffectAccounting ==
    /\ ~cleared => taken \o audio_buffer_ = Flatten(AppendedBatches)
    /\ IsSuffix(audio_buffer_, Flatten(AppendedBatches))
    /\ IsSuffix(vadSeen, Classified(SubSeq(arrived, 1, accounted)))
    /\ has_speech_ = SomeRunConfirms(vadSeen)
    /\ ready_to_process_ = Crossed(vadSeen)
    /\ speech_sample_count_ = SpeechCountAfter(vadSeen)
    /\ silence_sample_count_ = SilenceCountAfter(vadSeen)

\* the end of an utterance on a session whose user callback has been
\* invoked for every batch
C12_Witness ==
    /\ callback_
    /\ Len(cbLog) = MaxBatches
    /\ ready_to_process_
    /\ audio_buffer_ # <<>>

\* the same on a session without a user callback
C12_WitnessUnset ==
    /\ ~callback_
    /\ accounted = MaxBatches
    /\ ready_to_process_
    /\ audio_buffer_ # <<>>

\* C13: initialize() on a session that already holds a stream leaks
\* nothing: the only stream open is the one the session holds, which its
\* destruction closes, so that no stream opened is left open for ever.
C13_NoStreamLeaked ==
    /\ opened \subseteq {stream_}
    /\ ~alive => opened = {}

\* a stream the session no longer holds is never closed
C13_LeakIsPermanent ==
    [][\A h \in opened : h # stream_ => h \in opened']_vars

\* C20: between calls of start() and stop(), is_capturing() is true exactly
\* when the session holds a stream that the device layer has started and
\* not since stopped; in particular it is never true while no stream is
\* held.
C20_CapturingIffStreamRunning ==
    /\ alive => (capturing_ <=> (stream_ # 0 /\ stream_ \in started))
    /\ capturing_ => stream_ # 0

====
